---- MODULE Spec2Model ----
(***************************************************************************)
(* Model of include/log.h: the LOG_HANDLE structure, LOG_InitHandle, the   *)
(* raw LOG_Write function, the filtered LOG_WRITE macro and the five       *)
(* decorated macros LOG_ERROR .. LOG_TRACE built on                        *)
(* __LOG_PREFIX_BY_PRIORITY.                                               *)
(*                                                                         *)
(* The actions are the code; the callers' protocol is stated where the     *)
(* actions are composed. Spec is the default build with callers that       *)
(* initialise the handle once and log after success; the specifications    *)
(* that follow it vary the build flag, the scheduling, the sink, the       *)
(* number of handles and the callers.                                      *)
(*                                                                         *)
(* Bit masks (LOG_PRIORITY, LOG_MODULE) are modelled as the set of the bit *)
(* positions that are set in the 32-bit value, so that a & b is the        *)
(* intersection of the two sets and 0 == (a & b) is its emptiness.         *)
(***************************************************************************)
EXTENDS Integers, Sequences, FiniteSets, TLC

\* ---- bounds -------------------------------------------------------------
NumThreads == 2
MaxCalls == 2

Threads == 1..NumThreads

\* ---- ntdatatypes.h ------------------------------------------------------
NULL == "NULL"
UINT32_MAX == 0..31

Bit(n) == {n}
BitAnd(a, b) == a \cap b
BitOr(a, b) == a \cup b
ZERO == {}

\* ---- enum _LOG_PRIORITY -------------------------------------------------
LOG_PRIORITY_ERROR == Bit(0)
LOG_PRIORITY_WARN == Bit(1)
LOG_PRIORITY_INFO == Bit(2)
LOG_PRIORITY_DEBUG == Bit(3)
LOG_PRIORITY_TRACE == Bit(4)
LOG_PRIORITY_ALL == UINT32_MAX

\* ---- enum _LOG_MODULE ---------------------------------------------------
LOG_MODULE_PAGING == Bit(0)
LOG_MODULE_ALL == UINT32_MAX
\* a module bit added by the integrating application
LOG_MODULE_USER == Bit(1)

PriorityNames == {"ERROR", "WARN", "INFO", "DEBUG", "TRACE"}

\* LOG_WARN pasted with the name of LOG_ERROR
LOG_PRIORITY_BadPaste(PriorityName) ==
    CASE PriorityName = "ERROR" -> LOG_PRIORITY_ERROR
      [] PriorityName = "WARN" -> LOG_PRIORITY_ERROR
      [] PriorityName = "INFO" -> LOG_PRIORITY_INFO
      [] PriorityName = "DEBUG" -> LOG_PRIORITY_DEBUG
      [] PriorityName = "TRACE" -> LOG_PRIORITY_TRACE

\* token pasting LOG_PRIORITY_##PriorityName
LOG_PRIORITY(PriorityName) ==
    CASE PriorityName = "ERROR" -> LOG_PRIORITY_ERROR
      [] PriorityName = "WARN" -> LOG_PRIORITY_WARN
      [] PriorityName = "INFO" -> LOG_PRIORITY_INFO
      [] PriorityName = "DEBUG" -> LOG_PRIORITY_DEBUG
      [] PriorityName = "TRACE" -> LOG_PRIORITY_TRACE

\* stringification "(%s:%d) ["#PriorityName"] "
PrefixFmt(PriorityName) == "(%s:%d) [" \o PriorityName \o "] "

SuffixFmt == "\r\n"

\* ---- inputs -------------------------------------------------------------
Sinks == {"pfnSink"}
HandlePtrs == {NULL, "ptLog"}
\* the filter configurations LOG_InitHandle is called with:
\* <<pvContext, eModulesFilterMask, ePriorityFilterMask>>
Configs ==
    {<<"pvCtx", LOG_MODULE_PAGING, BitOr(LOG_PRIORITY_ERROR, LOG_PRIORITY_WARN)>>,
     <<NULL, LOG_MODULE_ALL, BitOr(LOG_PRIORITY_ERROR, LOG_PRIORITY_TRACE)>>,
     <<"pvCtx", LOG_MODULE_PAGING, BitOr(LOG_PRIORITY_INFO, LOG_PRIORITY_DEBUG)>>,
     <<NULL, ZERO, LOG_PRIORITY_ALL>>,
     <<"pvCtx", ZERO, ZERO>>}
MsgModules == {LOG_MODULE_PAGING, LOG_MODULE_USER}
MsgPriorities == {LOG_PRIORITY_WARN, LOG_PRIORITY_DEBUG}
Fmts == {NULL, "x=%d"}

\* what the caller's storage may hold before LOG_InitHandle
GarbageHandles ==
    [pfnLogWrite : {NULL, "garbage"},
     pvContext : {"garbage"},
     ePriorityFilterMask : {ZERO, LOG_PRIORITY_ALL},
     eModulesFilterMask : {LOG_MODULE_ALL},
     tLock : {0, 1}]

\* the storage of a handle the program does not use
NoHandle == [pfnLogWrite |-> NULL, pvContext |-> NULL, ePriorityFilterMask |-> ZERO,
             eModulesFilterMask |-> ZERO, tLock |-> 0]

NoArgs == [ptLog |-> NULL, pfnLogWrite |-> NULL, pvContext |-> NULL,
           eModulesFilterMask |-> ZERO, ePriorityFilterMask |-> ZERO]

NoCall == [id |-> -1, op |-> "none", eModule |-> ZERO, ePriority |-> ZERO,
           pszFmt |-> NULL, ptLog |-> NULL]

VARIABLES
    tHandle,     \* the LOG_HANDLE structure ptLog points to
    tHandleB,    \* a second LOG_HANDLE structure (ptLogB points to it)
    disableLog,  \* TRUE iff the build defines __INTEL_HEADERS_DISABLE_LOG__
    initArgs,    \* the arguments of the last LOG_InitHandle call
    initRet,     \* {return value of the last LOG_InitHandle call}, {} before any
    pc,          \* position of each thread inside its logging call
    cur,         \* the macro call each thread is executing (NoCall if none)
    ret,         \* {return value of the thread's direct LOG_Write}, {} otherwise
    sinkLog,     \* the invocations of the sink, in order
    sinkRet,     \* {what the sink reported at its last invocation}, {} before any
    nCalls,      \* number of logging calls issued
    stack        \* per thread: the macro calls suspended inside a sink invocation

vars == <<tHandle, tHandleB, disableLog, initArgs, initRet, pc, cur, ret, sinkLog, sinkRet,
          nCalls, stack>>

\* the state before LOG_InitHandle, in a build with the given setting of
\* __INTEL_HEADERS_DISABLE_LOG__
InitBuild(disabled) ==
    /\ tHandle \in GarbageHandles
    /\ tHandleB = NoHandle
    /\ disableLog = disabled
    /\ initArgs = NoArgs
    /\ initRet = {}
    /\ pc = [t \in Threads |-> "idle"]
    /\ cur = [t \in Threads |-> NoCall]
    /\ ret = [t \in Threads |-> {}]
    /\ sinkLog = <<>>
    /\ sinkRet = {}
    /\ nCalls = 0
    /\ stack = [t \in Threads |-> <<>>]

\* ---- LOG_InitHandle -----------------------------------------------------
\* the null test covers the handle only
LOG_InitHandle_NoSinkCheck(ptLog, pfnLogWrite, pvContext, eModulesFilterMask, ePriorityFilterMask) ==
    /\ initArgs' = [ptLog |-> ptLog, pfnLogWrite |-> pfnLogWrite,
                    pvContext |-> pvContext,
                    eModulesFilterMask |-> eModulesFilterMask,
                    ePriorityFilterMask |-> ePriorityFilterMask]
    /\ IF NULL = ptLog
       THEN /\ initRet' = {FALSE}
            /\ UNCHANGED tHandle
       ELSE /\ tHandle' = [pfnLogWrite |-> pfnLogWrite,
                           pvContext |-> pvContext,
                           eModulesFilterMask |-> eModulesFilterMask,
                           ePriorityFilterMask |-> ePriorityFilterMask,
                           tLock |-> 0]
            /\ initRet' = {TRUE}
    /\ UNCHANGED <<tHandleB, disableLog, pc, cur, ret, sinkLog, sinkRet, nCalls, stack>>

\* the assignment ptLog->tLock = 0 is missing
LOG_InitHandle_KeepsLock(ptLog, pfnLogWrite, pvContext, eModulesFilterMask, ePriorityFilterMask) ==
    /\ initArgs' = [ptLog |-> ptLog, pfnLogWrite |-> pfnLogWrite,
                    pvContext |-> pvContext,
                    eModulesFilterMask |-> eModulesFilterMask,
                    ePriorityFilterMask |-> ePriorityFilterMask]
    /\ IF (NULL = ptLog) \/ (NULL = pfnLogWrite)
       THEN /\ initRet' = {FALSE}
            /\ UNCHANGED tHandle
       ELSE /\ tHandle' = [pfnLogWrite |-> pfnLogWrite,
                           pvContext |-> pvContext,
                           eModulesFilterMask |-> eModulesFilterMask,
                           ePriorityFilterMask |-> ePriorityFilterMask,
                           tLock |-> tHandle.tLock]
            /\ initRet' = {TRUE}
    /\ UNCHANGED <<tHandleB, disableLog, pc, cur, ret, sinkLog, sinkRet, nCalls, stack>>

\* the function takes the guard of the handle before it stores the fields
LOG_InitHandle_TakesGuard(ptLog, pfnLogWrite, pvContext, eModulesFilterMask, ePriorityFilterMask) ==
    /\ (NULL # ptLog /\ NULL # pfnLogWrite) => tHandle.tLock = 0
    /\ initArgs' = [ptLog |-> ptLog, pfnLogWrite |-> pfnLogWrite,
                    pvContext |-> pvContext,
                    eModulesFilterMask |-> eModulesFilterMask,
                    ePriorityFilterMask |-> ePriorityFilterMask]
    /\ IF (NULL = ptLog) \/ (NULL = pfnLogWrite)
       THEN /\ initRet' = {FALSE}
            /\ UNCHANGED tHandle
       ELSE /\ tHandle' = [pfnLogWrite |-> pfnLogWrite,
                           pvContext |-> pvContext,
                           eModulesFilterMask |-> eModulesFilterMask,
                           ePriorityFilterMask |-> ePriorityFilterMask,
                           tLock |-> 0]
            /\ initRet' = {TRUE}
    /\ UNCHANGED <<tHandleB, disableLog, pc, cur, ret, sinkLog, sinkRet, nCalls, stack>>

LOG_InitHandle(ptLog, pfnLogWrite, pvContext, eModulesFilterMask, ePriorityFilterMask) ==
    /\ initArgs' = [ptLog |-> ptLog, pfnLogWrite |-> pfnLogWrite,
                    pvContext |-> pvContext,
                    eModulesFilterMask |-> eModulesFilterMask,
                    ePriorityFilterMask |-> ePriorityFilterMask]
    /\ IF (NULL = ptLog) \/ (NULL = pfnLogWrite)
       THEN /\ initRet' = {FALSE}
            /\ UNCHANGED tHandle
       ELSE /\ tHandle' = [pfnLogWrite |-> pfnLogWrite,
                           pvContext |-> pvContext,
                           eModulesFilterMask |-> eModulesFilterMask,
                           ePriorityFilterMask |-> ePriorityFilterMask,
                           tLock |-> 0]
            /\ initRet' = {TRUE}
    /\ UNCHANGED <<tHandleB, disableLog, pc, cur, ret, sinkLog, sinkRet, nCalls, stack>>

\* ---- the handle a pointer designates ------------------------------------
\* *ptLog (a null pointer is never dereferenced by the code paths that use it)
Deref(ptLog) == IF ptLog = "ptLogB" THEN tHandleB ELSE tHandle

\* ptLog->tLock = v
StoreLock(ptLog, v) ==
    IF ptLog = "ptLogB"
    THEN tHandleB' = [tHandleB EXCEPT !.tLock = v] /\ UNCHANGED tHandle
    ELSE tHandle' = [tHandle EXCEPT !.tLock = v] /\ UNCHANGED tHandleB

\* ---- LOG_Write (the raw write function) ---------------------------------
\* log: the sink invocations so far; h: the structure ptLog points to;
\* tag: who calls; r: what the sink reports if it is invoked.
\* Yields the invocations afterwards and the function's return value.
\* bSuccess keeps its initial value FALSE: the sink's result is not assigned
LOG_Write_DropsResult(log, h, ptLog, pszFmt, tag, r) ==
    IF (NULL = ptLog) \/ (NULL = pszFmt)
    THEN [log |-> log, sinkRet |-> sinkRet, bSuccess |-> FALSE]
    ELSE [log |-> Append(log, [tid |-> tag.tid, id |-> tag.id, op |-> tag.op,
                               part |-> tag.part, ptLog |-> ptLog,
                               eModule |-> tag.eModule,
                               ePriority |-> tag.ePriority,
                               pfn |-> h.pfnLogWrite,
                               pvContext |-> h.pvContext,
                               pszFmt |-> pszFmt]),
          sinkRet |-> {r},
          bSuccess |-> FALSE]

\* the null test covers the handle only, not the format
LOG_Write_NoFmtCheck(log, h, ptLog, pszFmt, tag, r) ==
    IF NULL = ptLog
    THEN [log |-> log, sinkRet |-> sinkRet, bSuccess |-> FALSE]
    ELSE [log |-> Append(log, [tid |-> tag.tid, id |-> tag.id, op |-> tag.op,
                               part |-> tag.part, ptLog |-> ptLog,
                               eModule |-> tag.eModule,
                               ePriority |-> tag.ePriority,
                               pfn |-> h.pfnLogWrite,
                               pvContext |-> h.pvContext,
                               pszFmt |-> pszFmt]),
          sinkRet |-> {r},
          bSuccess |-> r]

LOG_Write(log, h, ptLog, pszFmt, tag, r) ==
    IF (NULL = ptLog) \/ (NULL = pszFmt)
    THEN [log |-> log, sinkRet |-> sinkRet, bSuccess |-> FALSE]
    ELSE [log |-> Append(log, [tid |-> tag.tid, id |-> tag.id, op |-> tag.op,
                               part |-> tag.part, ptLog |-> ptLog,
                               eModule |-> tag.eModule,
                               ePriority |-> tag.ePriority,
                               pfn |-> h.pfnLogWrite,
                               pvContext |-> h.pvContext,
                               pszFmt |-> pszFmt]),
          sinkRet |-> {r},
          bSuccess |-> r]

\* a logging call may be issued by an idle thread
\* (threads are interchangeable: they enter in the order of their numbers)
CanCall(t) ==
    /\ pc[t] = "idle"
    /\ nCalls < MaxCalls
    /\ t <= nCalls + 1

NewCall(op, ptLog, eModule, ePriority, pszFmt) ==
    [id |-> nCalls, op |-> op, eModule |-> eModule, ePriority |-> ePriority,
     pszFmt |-> pszFmt, ptLog |-> ptLog]

\* the raw write tests the handle's masks before it invokes the sink
CallLOG_Write_Filtered(t, ptLog, pszFmt) ==
    /\ CanCall(t)
    /\ \E r \in BOOLEAN :
         LET w == IF \/ ZERO = Deref(ptLog).ePriorityFilterMask
                     \/ ZERO = Deref(ptLog).eModulesFilterMask
                  THEN [log |-> sinkLog, sinkRet |-> sinkRet, bSuccess |-> FALSE]
                  ELSE LOG_Write(sinkLog, Deref(ptLog), ptLog, pszFmt,
                                 [tid |-> t, id |-> nCalls, op |-> "LOG_Write", part |-> "raw",
                                  eModule |-> ZERO, ePriority |-> ZERO], r)
         IN /\ sinkLog' = w.log
            /\ sinkRet' = w.sinkRet
            /\ ret' = [ret EXCEPT ![t] = {w.bSuccess}]
    /\ nCalls' = nCalls + 1
    /\ UNCHANGED <<tHandle, tHandleB, disableLog, initArgs, initRet, pc, cur, stack>>

\* the raw write waits until the guard of the handle is free
CallLOG_Write_Guarded(t, ptLog, pszFmt) ==
    /\ CanCall(t)
    /\ (NULL # ptLog) => Deref(ptLog).tLock = 0
    /\ \E r \in BOOLEAN :
         LET w == LOG_Write(sinkLog, Deref(ptLog), ptLog, pszFmt,
                            [tid |-> t, id |-> nCalls, op |-> "LOG_Write", part |-> "raw",
                             eModule |-> ZERO, ePriority |-> ZERO], r)
         IN /\ sinkLog' = w.log
            /\ sinkRet' = w.sinkRet
            /\ ret' = [ret EXCEPT ![t] = {w.bSuccess}]
    /\ nCalls' = nCalls + 1
    /\ UNCHANGED <<tHandle, tHandleB, disableLog, initArgs, initRet, pc, cur, stack>>

\* a direct call of LOG_Write by thread t
CallLOG_Write(t, ptLog, pszFmt) ==
    /\ CanCall(t)
    /\ \E r \in BOOLEAN :
         LET w == LOG_Write(sinkLog, Deref(ptLog), ptLog, pszFmt,
                            [tid |-> t, id |-> nCalls, op |-> "LOG_Write", part |-> "raw",
                             eModule |-> ZERO, ePriority |-> ZERO], r)
         IN /\ sinkLog' = w.log
            /\ sinkRet' = w.sinkRet
            /\ ret' = [ret EXCEPT ![t] = {w.bSuccess}]
    /\ nCalls' = nCalls + 1
    /\ UNCHANGED <<tHandle, tHandleB, disableLog, initArgs, initRet, pc, cur, stack>>

\* ---- the filter test of LOG_WRITE and __LOG_PREFIX_BY_PRIORITY ----------
\* the two tests joined by && instead of ||
FilterRejects_And(h, ePriority, eModule) ==
    /\ ZERO = BitAnd(h.ePriorityFilterMask, ePriority)
    /\ ZERO = BitAnd(h.eModulesFilterMask, eModule)

\* the priority mask read as a threshold on the numeric order of severities:
\* a message is dropped when its severity value exceeds the mask value
FilterRejects_Threshold(h, ePriority, eModule) ==
    \/ h.ePriorityFilterMask = ZERO
    \/ \E b \in ePriority : \A q \in h.ePriorityFilterMask : b > q
    \/ ZERO = BitAnd(h.eModulesFilterMask, eModule)

FilterRejects(h, ePriority, eModule) ==
    \/ ZERO = BitAnd(h.ePriorityFilterMask, ePriority)
    \/ ZERO = BitAnd(h.eModulesFilterMask, eModule)

\* the decorated macro without its third LOG_Write statement
MacroNext_NoSuffix(op, at) ==
    CASE at = "acquire" -> IF op = "LOG_WRITE" THEN "body" ELSE "prefix"
      [] at = "prefix" -> "body"
      [] at = "body" -> "release"
      [] at = "suffix" -> "release"
      [] at = "release" -> "idle"

\* the decorated macro returns after its last LOG_Write statement, without
\* the LOCK_SpinlockRelease statement
MacroNext_NoRelease(op, at) ==
    CASE at = "acquire" -> IF op = "LOG_WRITE" THEN "body" ELSE "prefix"
      [] at = "prefix" -> "body"
      [] at = "body" -> IF op = "LOG_WRITE" THEN "release" ELSE "suffix"
      [] at = "suffix" -> "idle"
      [] at = "release" -> "idle"

\* the statements of the two macro bodies, in order
MacroNext(op, at) ==
    CASE at = "acquire" -> IF op = "LOG_WRITE" THEN "body" ELSE "prefix"
      [] at = "prefix" -> "body"
      [] at = "body" -> IF op = "LOG_WRITE" THEN "release" ELSE "suffix"
      [] at = "suffix" -> "release"
      [] at = "release" -> "idle"

\* ---- LOG_WRITE (filtered, undecorated) ----------------------------------
\* the priority test written with &= : it stores its result in the handle
LOG_WRITE_AndAssign(t, ptLog, eModule, ePriority, pszFmt) ==
    /\ CanCall(t)
    /\ nCalls' = nCalls + 1
    /\ ret' = [ret EXCEPT ![t] = {}]
    /\ IF ptLog = "ptLogB"
       THEN /\ tHandleB' = [tHandleB EXCEPT !.ePriorityFilterMask = BitAnd(@, ePriority)]
            /\ UNCHANGED tHandle
       ELSE /\ tHandle' = [tHandle EXCEPT !.ePriorityFilterMask = BitAnd(@, ePriority)]
            /\ UNCHANGED tHandleB
    /\ IF disableLog \/ FilterRejects(Deref(ptLog), ePriority, eModule)
       THEN UNCHANGED <<pc, cur>>
       ELSE /\ pc' = [pc EXCEPT ![t] = "acquire"]
            /\ cur' = [cur EXCEPT ![t] =
                         NewCall("LOG_WRITE", ptLog, eModule, ePriority, pszFmt)]
    /\ UNCHANGED <<disableLog, initArgs, initRet, sinkLog, sinkRet, stack>>

\* compiled to nothing when __INTEL_HEADERS_DISABLE_LOG__ is defined
LOG_WRITE(t, ptLog, eModule, ePriority, pszFmt) ==
    /\ CanCall(t)
    /\ nCalls' = nCalls + 1
    /\ ret' = [ret EXCEPT ![t] = {}]
    /\ IF disableLog \/ FilterRejects(Deref(ptLog), ePriority, eModule)
       THEN UNCHANGED <<pc, cur>>
       ELSE /\ pc' = [pc EXCEPT ![t] = "acquire"]
            /\ cur' = [cur EXCEPT ![t] =
                         NewCall("LOG_WRITE", ptLog, eModule, ePriority, pszFmt)]
    /\ UNCHANGED <<tHandle, tHandleB, disableLog, initArgs, initRet, sinkLog, sinkRet, stack>>

\* ---- __LOG_PREFIX_BY_PRIORITY -------------------------------------------
\* defined outside the #ifndef __INTEL_HEADERS_DISABLE_LOG__ block
LOG_PREFIX_BY_PRIORITY(t, ptLog, eModule, PriorityName, pszFmt) ==
    /\ CanCall(t)
    /\ nCalls' = nCalls + 1
    /\ ret' = [ret EXCEPT ![t] = {}]
    /\ IF FilterRejects(Deref(ptLog), LOG_PRIORITY(PriorityName), eModule)
       THEN UNCHANGED <<pc, cur>>
       ELSE /\ pc' = [pc EXCEPT ![t] = "acquire"]
            /\ cur' = [cur EXCEPT ![t] =
                         NewCall(PriorityName, ptLog, eModule,
                                 LOG_PRIORITY(PriorityName), pszFmt)]
    /\ UNCHANGED <<tHandle, tHandleB, disableLog, initArgs, initRet, sinkLog, sinkRet, stack>>

LOG_ERROR(t, ptLog, eModule, pszFmt) ==
    LOG_PREFIX_BY_PRIORITY(t, ptLog, eModule, "ERROR", pszFmt)
LOG_WARN(t, ptLog, eModule, pszFmt) ==
    LOG_PREFIX_BY_PRIORITY(t, ptLog, eModule, "WARN", pszFmt)
LOG_INFO(t, ptLog, eModule, pszFmt) ==
    LOG_PREFIX_BY_PRIORITY(t, ptLog, eModule, "INFO", pszFmt)
LOG_DEBUG(t, ptLog, eModule, pszFmt) ==
    LOG_PREFIX_BY_PRIORITY(t, ptLog, eModule, "DEBUG", pszFmt)
LOG_TRACE(t, ptLog, eModule, pszFmt) ==
    LOG_PREFIX_BY_PRIORITY(t, ptLog, eModule, "TRACE", pszFmt)

\* ---- the spin lock of utils.h -------------------------------------------
\* busy-waits until the lock is free, then takes it
LOCK_SpinlockAcquire(lock) == [enabled |-> lock = 0, lock |-> 1]
LOCK_SpinlockRelease(lock) == 0

\* ---- the guarded section of the two macros ------------------------------
\* the macro body without its LOCK_SpinlockAcquire statement
Acquire_NoLock(t) ==
    /\ pc[t] = "acquire"
    /\ pc' = [pc EXCEPT ![t] = MacroNext(cur[t].op, "acquire")]
    /\ UNCHANGED <<tHandle, tHandleB, disableLog, initArgs, initRet, cur, ret, sinkLog, sinkRet,
                   nCalls, stack>>

\* a recursive lock: the thread that holds the guard passes it again
Acquire_Recursive(t) ==
    /\ pc[t] = "acquire"
    /\ LOCK_SpinlockAcquire(Deref(cur[t].ptLog).tLock).enabled \/ stack[t] # <<>>
    /\ StoreLock(cur[t].ptLog, LOCK_SpinlockAcquire(Deref(cur[t].ptLog).tLock).lock)
    /\ pc' = [pc EXCEPT ![t] = MacroNext(cur[t].op, "acquire")]
    /\ UNCHANGED <<disableLog, initArgs, initRet, cur, ret, sinkLog, sinkRet, nCalls, stack>>

\* one guard for all handles: the lock of the first handle is used whatever
\* handle the call is made on
Acquire_SharedGuard(t) ==
    /\ pc[t] = "acquire"
    /\ LOCK_SpinlockAcquire(tHandle.tLock).enabled
    /\ tHandle' = [tHandle EXCEPT !.tLock = LOCK_SpinlockAcquire(tHandle.tLock).lock]
    /\ pc' = [pc EXCEPT ![t] = MacroNext(cur[t].op, "acquire")]
    /\ UNCHANGED <<tHandleB, disableLog, initArgs, initRet, cur, ret, sinkLog, sinkRet,
                   nCalls, stack>>

Acquire(t) ==
    /\ pc[t] = "acquire"
    /\ LOCK_SpinlockAcquire(Deref(cur[t].ptLog).tLock).enabled
    /\ StoreLock(cur[t].ptLog, LOCK_SpinlockAcquire(Deref(cur[t].ptLog).tLock).lock)
    /\ pc' = [pc EXCEPT ![t] = MacroNext(cur[t].op, "acquire")]
    /\ UNCHANGED <<disableLog, initArgs, initRet, cur, ret, sinkLog, sinkRet, nCalls, stack>>

\* the macro leaves its body as soon as a LOG_Write reports failure
MacroWrite_AbortOnFailure(t, part, pszFmt) ==
    /\ pc[t] = part
    /\ \E r \in BOOLEAN :
         LET w == LOG_Write(sinkLog, Deref(cur[t].ptLog), cur[t].ptLog, pszFmt,
                            [tid |-> t, id |-> cur[t].id, op |-> cur[t].op, part |-> part,
                             eModule |-> cur[t].eModule,
                             ePriority |-> cur[t].ePriority], r)
         IN /\ sinkLog' = w.log
            /\ sinkRet' = w.sinkRet
            /\ IF w.bSuccess
               THEN /\ pc' = [pc EXCEPT ![t] = MacroNext(cur[t].op, part)]
                    /\ UNCHANGED cur
               ELSE /\ pc' = [pc EXCEPT ![t] = "idle"]
                    /\ cur' = [cur EXCEPT ![t] = NoCall]
    /\ UNCHANGED <<tHandle, tHandleB, disableLog, initArgs, initRet, ret, nCalls, stack>>

\* (VOID)LOG_Write(...): the return value is discarded
MacroWrite(t, part, pszFmt) ==
    /\ pc[t] = part
    /\ \E r \in BOOLEAN :
         LET w == LOG_Write(sinkLog, Deref(cur[t].ptLog), cur[t].ptLog, pszFmt,
                            [tid |-> t, id |-> cur[t].id, op |-> cur[t].op, part |-> part,
                             eModule |-> cur[t].eModule,
                             ePriority |-> cur[t].ePriority], r)
         IN /\ sinkLog' = w.log
            /\ sinkRet' = w.sinkRet
    /\ pc' = [pc EXCEPT ![t] = MacroNext(cur[t].op, part)]
    /\ UNCHANGED <<tHandle, tHandleB, disableLog, initArgs, initRet, cur, ret, nCalls, stack>>

WritePrefix(t) == MacroWrite(t, "prefix", PrefixFmt(cur[t].op))
WriteBody(t) == MacroWrite(t, "body", cur[t].pszFmt)
WriteSuffix(t) == MacroWrite(t, "suffix", SuffixFmt)

\* the macro body without its LOCK_SpinlockRelease statement
Release_KeepsLock(t) ==
    /\ pc[t] = "release"
    /\ pc' = [pc EXCEPT ![t] = MacroNext(cur[t].op, "release")]
    /\ cur' = [cur EXCEPT ![t] = NoCall]
    /\ UNCHANGED <<tHandle, tHandleB, disableLog, initArgs, initRet, ret, sinkLog, sinkRet,
                   nCalls, stack>>

Release(t) ==
    /\ pc[t] = "release"
    /\ StoreLock(cur[t].ptLog, LOCK_SpinlockRelease(Deref(cur[t].ptLog).tLock))
    /\ pc' = [pc EXCEPT ![t] = MacroNext(cur[t].op, "release")]
    /\ cur' = [cur EXCEPT ![t] = NoCall]
    /\ UNCHANGED <<disableLog, initArgs, initRet, ret, sinkLog, sinkRet, nCalls, stack>>

\* ---- a sink that does not return at once --------------------------------
\* the format string of each LOG_Write statement of the macro body
PartFmt(call, part) ==
    CASE part = "prefix" -> PrefixFmt(call.op)
      [] part = "body" -> call.pszFmt
      [] part = "suffix" -> SuffixFmt

\* a LOG_Write statement of the macro body invokes the sink; the macro call
\* stays suspended in that invocation, and the thread runs the sink's code,
\* which may issue logging calls of its own
SinkEnter(t, part) ==
    /\ pc[t] = part
    /\ NULL # PartFmt(cur[t], part)
    /\ sinkLog' = LOG_Write(sinkLog, Deref(cur[t].ptLog), cur[t].ptLog, PartFmt(cur[t], part),
                            [tid |-> t, id |-> cur[t].id, op |-> cur[t].op, part |-> part,
                             eModule |-> cur[t].eModule,
                             ePriority |-> cur[t].ePriority], TRUE).log
    /\ stack' = [stack EXCEPT ![t] = Append(@, [pc |-> part, cur |-> cur[t]])]
    /\ pc' = [pc EXCEPT ![t] = "idle"]
    /\ cur' = [cur EXCEPT ![t] = NoCall]
    /\ UNCHANGED <<tHandle, tHandleB, disableLog, initArgs, initRet, ret, sinkRet, nCalls>>

\* the sink returns: the suspended macro call goes on with its next statement
SinkReturn(t) ==
    /\ pc[t] = "idle"
    /\ stack[t] # <<>>
    /\ LET top == stack[t][Len(stack[t])]
       IN /\ pc' = [pc EXCEPT ![t] = MacroNext(top.cur.op, top.pc)]
          /\ cur' = [cur EXCEPT ![t] = top.cur]
    /\ stack' = [stack EXCEPT ![t] = SubSeq(@, 1, Len(@) - 1)]
    /\ \E r \in BOOLEAN : sinkRet' = {r}
    /\ UNCHANGED <<tHandle, tHandleB, disableLog, initArgs, initRet, ret, sinkLog, nCalls>>

\* ---- the callers' protocol ----------------------------------------------
\* the handle is initialised before any logging call is issued ...
BeforeLogging == nCalls = 0
\* ... and logging calls are issued only once LOG_InitHandle returned TRUE
Initialised == initRet = {TRUE}

Next ==
    \/ \E ptLog \in HandlePtrs, pfn \in Sinks \cup {NULL}, c \in Configs :
         BeforeLogging /\ LOG_InitHandle(ptLog, pfn, c[1], c[2], c[3])
    \/ \E t \in Threads, ptLog \in HandlePtrs, f \in Fmts :
         Initialised /\ CallLOG_Write(t, ptLog, f)
    \/ \E t \in Threads, m \in MsgModules, p \in MsgPriorities, f \in Fmts :
         Initialised /\ LOG_WRITE(t, "ptLog", m, p, f)
    \/ \E t \in Threads, m \in MsgModules, f \in Fmts :
         Initialised /\ LOG_ERROR(t, "ptLog", m, f)
    \/ \E t \in Threads, m \in MsgModules, f \in Fmts :
         Initialised /\ LOG_WARN(t, "ptLog", m, f)
    \/ \E t \in Threads, m \in MsgModules, f \in Fmts :
         Initialised /\ LOG_INFO(t, "ptLog", m, f)
    \/ \E t \in Threads, m \in MsgModules, f \in Fmts :
         Initialised /\ LOG_DEBUG(t, "ptLog", m, f)
    \/ \E t \in Threads, m \in MsgModules, f \in Fmts :
         Initialised /\ LOG_TRACE(t, "ptLog", m, f)
    \/ \E t \in Threads : Acquire(t)
    \/ \E t \in Threads : WritePrefix(t)
    \/ \E t \in Threads : WriteBody(t)
    \/ \E t \in Threads : WriteSuffix(t)
    \/ \E t \in Threads : Release(t)

\* the default build: __INTEL_HEADERS_DISABLE_LOG__ is not defined
Init == InitBuild(FALSE)

Spec == Init /\ [][Next]_vars

\* the build that defines __INTEL_HEADERS_DISABLE_LOG__
InitDisabled == InitBuild(TRUE)

SpecDisabled == InitDisabled /\ [][Next]_vars

\* ---- other environments of the same code --------------------------------
\* the state after LOG_InitHandle(&tHandle, pfnSink, c[1], c[2], c[3]) and
\* LOG_InitHandle(&tHandleB, pfnSink, d[1], d[2], d[3]) returned TRUE
Constructed(c, hB) ==
    /\ tHandle = [pfnLogWrite |-> "pfnSink", pvContext |-> c[1],
                  eModulesFilterMask |-> c[2], ePriorityFilterMask |-> c[3], tLock |-> 0]
    /\ tHandleB = hB
    /\ disableLog = FALSE
    /\ initArgs = [ptLog |-> "ptLog", pfnLogWrite |-> "pfnSink", pvContext |-> c[1],
                   eModulesFilterMask |-> c[2], ePriorityFilterMask |-> c[3]]
    /\ initRet = {TRUE}
    /\ pc = [t \in Threads |-> "idle"]
    /\ cur = [t \in Threads |-> NoCall]
    /\ ret = [t \in Threads |-> {}]
    /\ sinkLog = <<>>
    /\ sinkRet = {}
    /\ nCalls = 0
    /\ stack = [t \in Threads |-> <<>>]

PagingErrorWarn == <<"pvCtx", LOG_MODULE_PAGING, BitOr(LOG_PRIORITY_ERROR, LOG_PRIORITY_WARN)>>

\* the guarded section of the macros, for every thread
Guarded ==
    \/ \E t \in Threads : Acquire(t)
    \/ \E t \in Threads : WritePrefix(t)
    \/ \E t \in Threads : WriteBody(t)
    \/ \E t \in Threads : WriteSuffix(t)
    \/ \E t \in Threads : Release(t)

\* the next statement of the macro call thread t is executing
MacroStep(t) ==
    Acquire(t) \/ WritePrefix(t) \/ WriteBody(t) \/ WriteSuffix(t) \/ Release(t)

\* fair scheduling: a thread whose macro call can execute its next statement
\* eventually executes it (the sink returns from every invocation)
Fairness == \A t \in Threads : WF_vars(MacroStep(t))

\* threads logging through an initialised handle, fairly scheduled
InitFair == Constructed(PagingErrorWarn, NoHandle)

NextFair ==
    \/ \E t \in Threads, f \in Fmts :
         LOG_WRITE(t, "ptLog", LOG_MODULE_PAGING, LOG_PRIORITY_WARN, f)
    \/ \E t \in Threads, m \in MsgModules, f \in Fmts : LOG_ERROR(t, "ptLog", m, f)
    \/ Guarded

FairSpec == InitFair /\ [][NextFair]_vars /\ Fairness

\* the sink logs through the handle it serves
InitReentrant == Constructed(PagingErrorWarn, NoHandle)

NextReentrant ==
    \/ \E t \in Threads, m \in MsgModules, f \in Fmts : LOG_ERROR(t, "ptLog", m, f)
    \/ \E t \in Threads, m \in MsgModules, f \in Fmts : LOG_INFO(t, "ptLog", m, f)
    \/ \E t \in Threads, m \in MsgModules, p \in MsgPriorities, f \in Fmts :
         LOG_WRITE(t, "ptLog", m, p, f)
    \/ \E t \in Threads, part \in {"prefix", "body", "suffix"} : SinkEnter(t, part)
    \/ \E t \in Threads : SinkReturn(t)
    \/ Guarded

SpecReentrant == InitReentrant /\ [][NextReentrant]_vars

\* two handles, each initialised once
BothHandles == {"ptLog", "ptLogB"}

InitTwoHandles ==
    Constructed(PagingErrorWarn,
                [pfnLogWrite |-> "pfnSink", pvContext |-> NULL,
                 eModulesFilterMask |-> LOG_MODULE_ALL,
                 ePriorityFilterMask |-> LOG_PRIORITY_ALL, tLock |-> 0])

NextTwoHandles ==
    \/ \E t \in Threads, ptLog \in BothHandles, m \in MsgModules :
         LOG_ERROR(t, ptLog, m, "x=%d")
    \/ \E t \in Threads, ptLog \in BothHandles :
         LOG_WRITE(t, ptLog, LOG_MODULE_PAGING, LOG_PRIORITY_WARN, "x=%d")
    \/ Guarded

SpecTwoHandles == InitTwoHandles /\ [][NextTwoHandles]_vars

\* callers that do not check what LOG_InitHandle returned, or do not call it
NextUnchecked ==
    \/ \E ptLog \in HandlePtrs, pfn \in Sinks \cup {NULL}, c \in Configs :
         BeforeLogging /\ LOG_InitHandle(ptLog, pfn, c[1], c[2], c[3])
    \/ \E t \in Threads, f \in Fmts : CallLOG_Write(t, "ptLog", f)
    \/ \E t \in Threads, f \in Fmts : LOG_ERROR(t, "ptLog", LOG_MODULE_PAGING, f)
    \/ Guarded

SpecUnchecked == Init /\ [][NextUnchecked]_vars

\* LOG_InitHandle called again on the handle while threads log through it
InitReinit == Constructed(PagingErrorWarn, NoHandle)

NextReinit ==
    \/ \E c \in {PagingErrorWarn} :
         ~BeforeLogging /\ LOG_InitHandle("ptLog", "pfnSink", c[1], c[2], c[3])
    \/ \E t \in Threads, m \in MsgModules, f \in Fmts : LOG_ERROR(t, "ptLog", m, f)
    \/ Guarded

SpecReinit == InitReinit /\ [][NextReinit]_vars

TypeOK ==
    /\ tHandle.tLock \in {0, 1}
    /\ tHandleB.tLock \in {0, 1}
    /\ \A t \in Threads : Len(stack[t]) <= MaxCalls
    /\ disableLog \in BOOLEAN
    /\ nCalls \in 0..MaxCalls

\* ---- vocabulary of the properties ---------------------------------------
IsDecorated(op) == op \in PriorityNames
IsFiltered(op) == op = "LOG_WRITE" \/ IsDecorated(op)

\* the sink invocations made on behalf of call id, in order
CallEntries(id) == SelectSeq(sinkLog, LAMBDA e : e.id = id)
CallParts(id) == [i \in 1..Len(CallEntries(id)) |-> CallEntries(id)[i].part]

\* call id has been issued and no thread is executing it any more
Completed(id) == id \in 0..(nCalls - 1) /\ \A t \in Threads : cur[t].id # id

\* (mask & bits) == 0
AndIsZero(mask, bits) == \A b \in bits : b \notin mask

\* a message of the given severity and module is filtered out by the handle
FilteredOut(ePriority, eModule) ==
    \/ AndIsZero(tHandle.ePriorityFilterMask, ePriority)
    \/ AndIsZero(tHandle.eModulesFilterMask, eModule)

\* the bit of each severity, as enum _LOG_PRIORITY lists them
SeverityBit(name) ==
    CASE name = "ERROR" -> {0}
      [] name = "WARN" -> {1}
      [] name = "INFO" -> {2}
      [] name = "DEBUG" -> {3}
      [] name = "TRACE" -> {4}

\* C1: a filtered operation (LOG_WRITE, LOG_ERROR .. LOG_TRACE) whose message
\* fails the priority test or the module test invokes the sink zero times,
\* never gets to the guard and leaves every field of the handle unchanged.
C1_FilteredOutIsNoOp ==
    /\ [](/\ \A t \in Threads :
               pc[t] # "idle" => ~FilteredOut(cur[t].ePriority, cur[t].eModule)
          /\ \A i \in DOMAIN sinkLog :
               IsFiltered(sinkLog[i].op)
                   => ~FilteredOut(sinkLog[i].ePriority, sinkLog[i].eModule))
    /\ [][\/ (tHandle' = tHandle /\ sinkLog' = sinkLog /\ pc' = pc)
          \/ nCalls' # nCalls + 1
          \/ \A t \in Threads, m \in MsgModules :
               /\ \A name \in PriorityNames :
                    FilteredOut(SeverityBit(name), m)
                        => \A f \in Fmts : ~LOG_PREFIX_BY_PRIORITY(t, "ptLog", m, name, f)
               /\ \A p \in MsgPriorities :
                    FilteredOut(p, m)
                        => \A f \in Fmts : ~LOG_WRITE(t, "ptLog", m, p, f)]_vars

\* the handle lets every severity through and no module: one call has been
\* issued, it was a filtered one (no return value), and nothing happened
C1_Witness ==
    /\ initRet = {TRUE}
    /\ tHandle.ePriorityFilterMask = LOG_PRIORITY_ALL
    /\ tHandle.eModulesFilterMask = ZERO
    /\ nCalls = 1
    /\ \A t \in Threads : pc[t] = "idle" /\ ret[t] = {}
    /\ sinkLog = <<>>
    /\ tHandle.tLock = 0

\* C2: under concurrent decorated calls of several threads on the handle, the
\* order of sink invocations never has a part of one thread's decorated
\* message between two parts of another thread's decorated message.
C2_NoInterleaving ==
    \A i, j, k \in DOMAIN sinkLog :
        (/\ i < j /\ j < k
         /\ IsDecorated(sinkLog[i].op)
         /\ sinkLog[i].id = sinkLog[k].id
         /\ IsDecorated(sinkLog[j].op))
            => sinkLog[j].tid = sinkLog[i].tid

\* two decorated calls in flight: one has emitted its prefix and holds the
\* guard, the other passed the filter and waits for the guard
C2_Witness ==
    \E a, b \in Threads :
        /\ a # b
        /\ IsDecorated(cur[a].op) /\ IsDecorated(cur[b].op)
        /\ pc[a] = "body"
        /\ CallParts(cur[a].id) = <<"prefix">>
        /\ pc[b] = "acquire"

\* the sink invocations a passing call makes, by the kind of the call
ExpectedParts(op) == IF op = "LOG_WRITE" THEN <<"body">> ELSE <<"prefix", "body", "suffix">>

\* the invocations a passing call has made when it is at position at
PartsBefore(op, at) ==
    CASE at \in {"acquire", "prefix"} -> <<>>
      [] at = "body" -> IF op = "LOG_WRITE" THEN <<>> ELSE <<"prefix">>
      [] at = "suffix" -> <<"prefix", "body">>
      [] at = "release" -> ExpectedParts(op)

\* once a call has ended, no sink invocation is made on its behalf
NoLateInvocation ==
    \A id \in 0..(MaxCalls - 1) : Completed(id) => CallEntries(id)' = CallEntries(id)

\* C3 as stated: every message that passes the filter gives exactly three
\* sink invocations (prefix, body, suffix, in this order) for a decorated
\* call and exactly one for LOG_WRITE.
C3_Original ==
    \A t \in Threads :
        pc[t] = "release" => CallParts(cur[t].id) = ExpectedParts(cur[t].op)

\* C3 amended: every message with a non-null format string that passes the
\* filter gives exactly three sink invocations (prefix, body, suffix, in this
\* order) for a decorated call and exactly one for LOG_WRITE.
C3_PartsInOrder ==
    /\ [](\A t \in Threads :
            (pc[t] # "idle" /\ cur[t].pszFmt # NULL)
                => CallParts(cur[t].id) = PartsBefore(cur[t].op, pc[t]))
    /\ [][NoLateInvocation]_vars

\* a decorated call has ended leaving prefix, body, suffix, and a LOG_WRITE
\* call is about to release the guard having invoked the sink once
C3_Witness ==
    /\ \E id \in 0..(nCalls - 1) :
         /\ Completed(id)
         /\ CallParts(id) = <<"prefix", "body", "suffix">>
         /\ CallEntries(id)[2].pszFmt = "x=%d"
    /\ \E t \in Threads :
         /\ pc[t] = "release"
         /\ cur[t].op = "LOG_WRITE"
         /\ CallParts(cur[t].id) = <<"body">>

\* C4: in a passing decorated call the three raw writes are attempted in
\* order whatever the sink reports for each of them, and the call ends only
\* through the release of the guard, which leaves it unlocked.
C4_ReleasedWhateverTheSinkReports ==
    [][\A t \in Threads :
         (IsDecorated(cur[t].op) /\ pc'[t] # pc[t]) =>
            /\ pc[t] = "prefix" =>
                 /\ pc'[t] = "body"
                 /\ Len(sinkLog') = Len(sinkLog) + 1
                 /\ sinkLog'[Len(sinkLog')].part = "prefix"
            /\ pc[t] = "body" =>
                 /\ pc'[t] = "suffix"
                 /\ cur[t].pszFmt # NULL =>
                      /\ Len(sinkLog') = Len(sinkLog) + 1
                      /\ sinkLog'[Len(sinkLog')].part = "body"
            /\ pc[t] = "suffix" =>
                 /\ pc'[t] = "release"
                 /\ Len(sinkLog') = Len(sinkLog) + 1
                 /\ sinkLog'[Len(sinkLog')].part = "suffix"
            /\ pc[t] = "release" => (pc'[t] = "idle" /\ tHandle'.tLock = 0)
            /\ pc'[t] = "idle" => pc[t] = "release"]_vars

\* one decorated call was issued and has ended: the sink was invoked three
\* times, it reported failure for the suffix, and the guard is unlocked
C4_Witness ==
    /\ nCalls = 1
    /\ \A t \in Threads : pc[t] = "idle"
    /\ Len(sinkLog) = 3
    /\ IsDecorated(sinkLog[3].op)
    /\ sinkLog[3].part = "suffix"
    /\ sinkRet = {FALSE}
    /\ tHandle.tLock = 0

\* this step is a call of LOG_InitHandle (it is the only operation that
\* leaves the number of logging calls at zero)
InitHandleStep == nCalls' = 0

\* C5: LOG_InitHandle called with a null handle or a null sink returns
\* failure and modifies no field of the handle storage.
C5_NullArgumentsFail ==
    [][(InitHandleStep /\ (initArgs'.ptLog = NULL \/ initArgs'.pfnLogWrite = NULL))
          => (initRet' = {FALSE} /\ tHandle' = tHandle)]_vars

\* a call with a handle and a null sink has failed, and the storage still
\* holds what it held before any initialisation, a locked guard included
C5_Witness ==
    /\ initArgs.ptLog # NULL
    /\ initArgs.pfnLogWrite = NULL
    /\ initRet = {FALSE}
    /\ tHandle \in GarbageHandles
    /\ tHandle.tLock = 1

\* C6: LOG_InitHandle called with a handle and a sink returns success, stores
\* exactly the given sink, context, module mask and priority mask (zero masks
\* included) and leaves the guard unlocked, whatever the storage held.
C6_InitStoresArguments ==
    [][(InitHandleStep /\ initArgs'.ptLog # NULL /\ initArgs'.pfnLogWrite # NULL)
          => /\ initRet' = {TRUE}
             /\ tHandle'.pfnLogWrite = initArgs'.pfnLogWrite
             /\ tHandle'.pvContext = initArgs'.pvContext
             /\ tHandle'.eModulesFilterMask = initArgs'.eModulesFilterMask
             /\ tHandle'.ePriorityFilterMask = initArgs'.ePriorityFilterMask
             /\ tHandle'.tLock = 0]_vars

\* a successful call that stored a null context and a zero module mask
C6_Witness ==
    /\ initRet = {TRUE}
    /\ nCalls = 0
    /\ initArgs.pvContext = NULL
    /\ initArgs.eModulesFilterMask = ZERO
    /\ tHandle = [pfnLogWrite |-> "pfnSink", pvContext |-> NULL,
                  eModulesFilterMask |-> ZERO,
                  ePriorityFilterMask |-> LOG_PRIORITY_ALL, tLock |-> 0]

\* C7: raw LOG_Write with a null handle or a null format returns failure
\* without invoking the sink; otherwise it invokes the handle's sink exactly
\* once, with the handle's context and the given format, and returns what the
\* sink reported.
C7_RawWrite ==
    [][\A t \in Threads, ptLog \in HandlePtrs, f \in Fmts :
         CallLOG_Write(t, ptLog, f) =>
            IF ptLog = NULL \/ f = NULL
            THEN /\ ret'[t] = {FALSE}
                 /\ sinkLog' = sinkLog
            ELSE /\ Len(sinkLog') = Len(sinkLog) + 1
                 /\ SubSeq(sinkLog', 1, Len(sinkLog)) = sinkLog
                 /\ sinkLog'[Len(sinkLog')].pfn = tHandle.pfnLogWrite
                 /\ sinkLog'[Len(sinkLog')].pvContext = tHandle.pvContext
                 /\ sinkLog'[Len(sinkLog')].pszFmt = f
                 /\ sinkRet' # {}
                 /\ ret'[t] = sinkRet']_vars

\* one raw call was issued: the sink was invoked once with the stored
\* context and reported success, and the call returned TRUE
C7_Witness ==
    /\ nCalls = 1
    /\ Len(sinkLog) = 1
    /\ sinkLog[1].part = "raw"
    /\ sinkLog[1].pvContext = "pvCtx"
    /\ tHandle.pvContext = "pvCtx"
    /\ sinkRet = {TRUE}
    /\ ret[sinkLog[1].tid] = {TRUE}

\* C8 as stated: in a build that defines __INTEL_HEADERS_DISABLE_LOG__ no
\* filtered or decorated call invokes the sink or touches the guard (only raw
\* LOG_Write invokes the sink).
C8_DisabledBuildIsSilent ==
    disableLog =>
        /\ \A i \in DOMAIN sinkLog : sinkLog[i].part = "raw"
        /\ \A t \in Threads : pc[t] = "idle"
        /\ (initRet = {TRUE} => tHandle.tLock = 0)

\* a logging call is issued in this step
IsCallStep == nCalls' = nCalls + 1

\* the call issued in this step by thread t passes the filter: it goes on to
\* the guard
Accepted(t) == pc[t] = "idle" /\ pc'[t] = "acquire"

ErrorOrTrace == {0, 4}

\* C9: severities and modules are independent bit masks. A message is
\* accepted exactly when (priority mask & severity) and (module mask & module)
\* are both non-zero; with priority mask = Error|Trace, Error and Trace
\* messages pass the priority test and Warn, Info and Debug messages are
\* rejected, for every module.
C9_IndependentBitMasks ==
    [][IsCallStep =>
         \A t \in Threads, m \in MsgModules :
            /\ \A name \in PriorityNames :
                 \/ /\ Accepted(t) <=> (/\ ~AndIsZero(tHandle.ePriorityFilterMask, SeverityBit(name))
                                        /\ ~AndIsZero(tHandle.eModulesFilterMask, m))
                    /\ tHandle.ePriorityFilterMask = ErrorOrTrace =>
                         IF name \in {"ERROR", "TRACE"}
                         THEN Accepted(t) <=> ~AndIsZero(tHandle.eModulesFilterMask, m)
                         ELSE ~Accepted(t)
                 \/ \A f \in Fmts : ~LOG_PREFIX_BY_PRIORITY(t, "ptLog", m, name, f)
            /\ \A p \in MsgPriorities :
                 \/ /\ Accepted(t) <=> (/\ ~AndIsZero(tHandle.ePriorityFilterMask, p)
                                        /\ ~AndIsZero(tHandle.eModulesFilterMask, m))
                    /\ tHandle.ePriorityFilterMask = ErrorOrTrace =>
                         IF p \in {{0}, {4}}
                         THEN Accepted(t) <=> ~AndIsZero(tHandle.eModulesFilterMask, m)
                         ELSE ~Accepted(t)
                 \/ \A f \in Fmts : ~LOG_WRITE(t, "ptLog", m, p, f)]_vars

\* priority mask Error|Trace: an Error message of the paging module has been
\* emitted and a Trace message of another module has passed the filter
C9_Witness ==
    /\ tHandle.ePriorityFilterMask = ErrorOrTrace
    /\ \E i \in DOMAIN sinkLog :
         /\ sinkLog[i].op = "ERROR"
         /\ sinkLog[i].eModule = LOG_MODULE_PAGING
         /\ Completed(sinkLog[i].id)
    /\ \E t \in Threads :
         /\ pc[t] = "acquire"
         /\ cur[t].op = "TRACE"
         /\ cur[t].eModule = LOG_MODULE_USER

\* the prefix text of each decorated operation
PrefixText(op) ==
    CASE op = "ERROR" -> "(%s:%d) [ERROR] "
      [] op = "WARN" -> "(%s:%d) [WARN] "
      [] op = "INFO" -> "(%s:%d) [INFO] "
      [] op = "DEBUG" -> "(%s:%d) [DEBUG] "
      [] op = "TRACE" -> "(%s:%d) [TRACE] "

\* LOG_X, called by thread t on a message of module m, is accepted iff the
\* priority mask has the bit of X (and the module mask a bit of m), and an
\* accepted call runs under the name X
GateOfIs(bit, name, m, t) ==
    /\ Accepted(t) <=> (bit \in tHandle.ePriorityFilterMask
                        /\ ~AndIsZero(tHandle.eModulesFilterMask, m))
    /\ Accepted(t) => cur'[t].op = name

\* C10: each decorated operation tests its own severity bit and emits its own
\* severity name: LOG_X passes the priority gate iff the priority mask has
\* LOG_PRIORITY_X, and the first sink invocation of a passing LOG_X call is
\* the prefix with the literal name X. With module mask Paging and priority
\* mask Error|Warn, LOG_INFO on Paging invokes nothing and LOG_ERROR on Paging
\* starts with the prefix tagged [ERROR].
C10_OwnSeverity ==
    /\ [](\A i \in DOMAIN sinkLog :
            IsDecorated(sinkLog[i].op) =>
               /\ CallEntries(sinkLog[i].id)[1].part = "prefix"
               /\ CallEntries(sinkLog[i].id)[1].pszFmt = PrefixText(sinkLog[i].op)
               /\ sinkLog[i].part = "prefix" => sinkLog[i] = CallEntries(sinkLog[i].id)[1])
    /\ [][IsCallStep =>
            \A t \in Threads, m \in MsgModules :
               /\ GateOfIs(0, "ERROR", m, t) \/ \A f \in Fmts : ~LOG_ERROR(t, "ptLog", m, f)
               /\ GateOfIs(1, "WARN", m, t) \/ \A f \in Fmts : ~LOG_WARN(t, "ptLog", m, f)
               /\ GateOfIs(2, "INFO", m, t) \/ \A f \in Fmts : ~LOG_INFO(t, "ptLog", m, f)
               /\ GateOfIs(3, "DEBUG", m, t) \/ \A f \in Fmts : ~LOG_DEBUG(t, "ptLog", m, f)
               /\ GateOfIs(4, "TRACE", m, t) \/ \A f \in Fmts : ~LOG_TRACE(t, "ptLog", m, f)
               /\ (tHandle.eModulesFilterMask = {0} /\ tHandle.ePriorityFilterMask = {0, 1}) =>
                    /\ (sinkLog' = sinkLog /\ pc' = pc) \/ \A f \in Fmts : ~LOG_INFO(t, "ptLog", {0}, f)
                    /\ Accepted(t) \/ \A f \in Fmts : ~LOG_ERROR(t, "ptLog", {0}, f)]_vars

\* module mask Paging, priority mask Error|Warn: two calls were issued and
\* have ended; all that reached the sink is the three parts of a LOG_ERROR
\* message on Paging, the first of them tagged [ERROR]
C10_Witness ==
    /\ tHandle.eModulesFilterMask = {0}
    /\ tHandle.ePriorityFilterMask = {0, 1}
    /\ nCalls = 2
    /\ \A t \in Threads : pc[t] = "idle" /\ ret[t] = {}
    /\ Len(sinkLog) = 3
    /\ sinkLog[1].pszFmt = "(%s:%d) [ERROR] "
    /\ sinkLog[2].pszFmt = "x=%d"
    /\ sinkLog[3].pszFmt = "\r\n"
    /\ sinkLog[1].eModule = {0}
    /\ \A i \in 1..3 : sinkLog[i].id = sinkLog[1].id

\* C11: raw LOG_Write does no filtering and no locking. Called with a handle
\* and a format it invokes the sink whatever the two masks of the handle are
\* (both zero included), it can be called whether the guard is free or held,
\* and it leaves the guard, like the rest of the handle, as it was.
C11_RawWriteUnfilteredUnlocked ==
    /\ [](\A t \in Threads :
            (Initialised /\ CanCall(t)) => ENABLED CallLOG_Write(t, "ptLog", "x=%d"))
    /\ [][IsCallStep =>
            \A t \in Threads :
               \/ /\ Len(sinkLog') = Len(sinkLog) + 1
                  /\ sinkLog'[Len(sinkLog')].part = "raw"
                  /\ tHandle' = tHandle
                  /\ pc' = pc
               \/ ~CallLOG_Write(t, "ptLog", "x=%d")]_vars

\* both masks of the handle are zero: a raw write has invoked the sink and
\* returned what the sink reported
C11_Witness ==
    /\ Initialised
    /\ tHandle.eModulesFilterMask = ZERO
    /\ tHandle.ePriorityFilterMask = ZERO
    /\ Len(sinkLog) = 1
    /\ sinkLog[1].part = "raw"
    /\ ret[sinkLog[1].tid] = sinkRet
    /\ tHandle.tLock = 0

\* thread t is between LOCK_SpinlockAcquire and LOCK_SpinlockRelease
InSection(t) == pc[t] \in {"prefix", "body", "suffix", "release"}

\* C12: guard invariant. On a handle initialised once before any logging, at
\* most one thread is between LOCK_SpinlockAcquire and LOCK_SpinlockRelease
\* of a filtered or decorated call, the guard is locked exactly when some
\* thread is there (so it is unlocked when no filtered call is in progress),
\* and every sink invocation of a filtered or decorated call is made by a
\* thread that holds the guard.
C12_GuardInvariant ==
    /\ [](Initialised =>
            /\ Cardinality({t \in Threads : InSection(t)}) <= 1
            /\ (tHandle.tLock = 1) <=> (\E t \in Threads : InSection(t))
            /\ (\A t \in Threads : pc[t] = "idle") => tHandle.tLock = 0)
    /\ [][(Len(sinkLog') > Len(sinkLog) /\ IsFiltered(sinkLog'[Len(sinkLog')].op)) =>
            /\ InSection(sinkLog'[Len(sinkLog')].tid)
            /\ cur[sinkLog'[Len(sinkLog')].tid].id = sinkLog'[Len(sinkLog')].id
            /\ tHandle.tLock = 1 /\ tHandle'.tLock = 1
            /\ \A u \in Threads : InSection(u) => u = sinkLog'[Len(sinkLog')].tid]_vars

\* a LOG_WRITE call has invoked the sink and still holds the guard, while
\* another thread's call has passed the filter and waits for the guard
C12_Witness ==
    \E a, b \in Threads :
        /\ a # b
        /\ pc[a] = "release"
        /\ cur[a].op = "LOG_WRITE"
        /\ CallParts(cur[a].id) = <<"body">>
        /\ pc[b] = "acquire"
        /\ tHandle.tLock = 1

Reentered(t) ==
    /\ stack[t] # <<>>
    /\ pc[t] = "acquire"
    /\ cur[t].ptLog = stack[t][Len(stack[t])].cur.ptLog

\* C14: a filtered or decorated call issued by the sink on the handle it was
\* invoked for, while invoked from a passing filtered or decorated call, and
\* passing the filter itself, waits for the guard its own caller holds: it
\* never gets the guard, the sink never returns and the guard stays locked.
C14_ReentrantCallDeadlocks ==
    /\ [](\A t \in Threads :
            Reentered(t) => (tHandle.tLock = 1 /\ ~ENABLED Acquire(t)))
    /\ [][\A t \in Threads :
            Reentered(t) =>
               /\ pc'[t] = "acquire"
               /\ stack'[t] = stack[t]
               /\ tHandle'.tLock = 1]_vars

\* the sink, invoked for the body of a LOG_ERROR message, has issued
\* LOG_ERROR on the same handle; the inner call passed the filter
C14_Witness ==
    \E t \in Threads :
        /\ Reentered(t)
        /\ cur[t].op = "ERROR"
        /\ Len(stack[t]) = 1
        /\ stack[t][1].pc = "body"
        /\ stack[t][1].cur.op = "ERROR"
        /\ CallParts(stack[t][1].cur.id) = <<"prefix", "body">>

\* the sink pointer, the context and the two masks of a handle
Configuration(h) ==
    <<h.pfnLogWrite, h.pvContext, h.eModulesFilterMask, h.ePriorityFilterMask>>

\* C15: no logging operation (raw LOG_Write, LOG_WRITE, LOG_ERROR ..
\* LOG_TRACE), passing the filter or not and whatever the sink returns,
\* modifies the sink pointer, the context, the module mask or the priority
\* mask of the handle: after any sequence of logging calls the four fields
\* hold what the last successful LOG_InitHandle stored.
C15_LoggingKeepsConfiguration ==
    /\ [](Initialised =>
            Configuration(tHandle) = <<initArgs.pfnLogWrite, initArgs.pvContext,
                                       initArgs.eModulesFilterMask,
                                       initArgs.ePriorityFilterMask>>)
    /\ [][InitHandleStep \/ Configuration(tHandle)' = Configuration(tHandle)]_vars

\* a raw write and a decorated call have ended, the sink reported failure at
\* its last invocation, and the handle holds the configuration it was given
C15_Witness ==
    /\ nCalls = 2
    /\ \A t \in Threads : pc[t] = "idle"
    /\ Len(sinkLog) = 4
    /\ \E i \in 1..4 : sinkLog[i].part = "raw"
    /\ \E i \in 1..4 : sinkLog[i].part = "suffix"
    /\ sinkRet = {FALSE}
    /\ Configuration(tHandle) =
           <<"pfnSink", NULL, LOG_MODULE_ALL, BitOr(LOG_PRIORITY_ERROR, LOG_PRIORITY_TRACE)>>

\* C16: guards are per handle. A call that passed the filter of one handle
\* waits only for the guard of that handle: it can take it whenever that
\* guard is free, whoever holds the guard of the other handle, and taking or
\* releasing it leaves the other handle alone. Between the parts of a
\* decorated message only calls made on another handle can place sink
\* invocations of their own.
C16_GuardsArePerHandle ==
    /\ [](/\ \A t \in Threads :
               pc[t] = "acquire" =>
                  (ENABLED Acquire(t) <=> Deref(cur[t].ptLog).tLock = 0)
          /\ \A i, j, k \in DOMAIN sinkLog :
               (/\ i < j /\ j < k
                /\ IsDecorated(sinkLog[i].op)
                /\ sinkLog[i].id = sinkLog[k].id
                /\ sinkLog[j].tid # sinkLog[i].tid)
                   => sinkLog[j].ptLog # sinkLog[i].ptLog)
    /\ [][\A t \in Threads :
            (pc'[t] # pc[t] /\ pc[t] \in {"acquire", "release"}) =>
               IF cur[t].ptLog = "ptLogB"
               THEN tHandle' = tHandle /\ tHandleB'.tLock # tHandleB.tLock
               ELSE tHandleB' = tHandleB /\ tHandle'.tLock # tHandle.tLock]_vars

\* both guards are held at once, and the prefix of a decorated message on
\* the second handle lies between the prefix and the body of a decorated
\* message on the first
C16_Witness ==
    /\ tHandle.tLock = 1
    /\ tHandleB.tLock = 1
    /\ Len(sinkLog) = 3
    /\ sinkLog[1].ptLog = "ptLog" /\ sinkLog[1].part = "prefix"
    /\ sinkLog[2].ptLog = "ptLogB" /\ sinkLog[2].part = "prefix"
    /\ sinkLog[3].ptLog = "ptLog" /\ sinkLog[3].part = "body"
    /\ sinkLog[3].id = sinkLog[1].id
    /\ sinkLog[2].tid # sinkLog[1].tid

\* C17 as stated: whatever the callers do, every sink invocation is made
\* through a handle for which LOG_InitHandle returned success, and never
\* through a null sink pointer.
C17_Original ==
    \A i \in DOMAIN sinkLog :
        /\ Initialised
        /\ sinkLog[i].pfn # NULL
        /\ sinkLog[i].pfn = initArgs.pfnLogWrite

\* C17 amended: if the callers issue their logging calls after LOG_InitHandle
\* returned success for the handle, every sink invocation, of raw LOG_Write
\* and of the filtered and decorated calls, goes through the non-null sink
\* pointer, with the context, that this LOG_InitHandle call was given. (The
\* logging operations themselves do not test whether the handle was
\* initialised.)
C17_InitialisedHandleHasSink ==
    Initialised =>
        /\ tHandle.pfnLogWrite # NULL
        /\ \A i \in DOMAIN sinkLog :
             /\ sinkLog[i].pfn # NULL
             /\ sinkLog[i].pfn = initArgs.pfnLogWrite
             /\ sinkLog[i].pvContext = initArgs.pvContext

\* LOG_InitHandle returned success; a raw write and the prefix of a decorated
\* call then went through the sink it was given
C17_Witness ==
    /\ Initialised
    /\ Len(sinkLog) = 2
    /\ sinkLog[1].part = "raw"
    /\ sinkLog[2].part = "prefix"
    /\ \A i \in 1..2 : sinkLog[i].pfn = "pfnSink"

\* C18: raw LOG_Write takes no guard. While a thread is inside a passing
\* decorated call on the handle, another thread can make a direct raw write
\* on the same handle, so its sink invocation can lie between the prefix,
\* body and suffix of the decorated message; the only invocations of other
\* threads that ever lie between the parts of a decorated message are raw
\* writes (the parts stay contiguous against filtered and decorated calls).
C18_RawWriteMayInterleave ==
    /\ \A t, u \in Threads :
         (/\ InSection(t) /\ IsDecorated(cur[t].op)
          /\ Initialised /\ CanCall(u))
             => ENABLED CallLOG_Write(u, "ptLog", "x=%d")
    /\ \A i, j, k \in DOMAIN sinkLog :
         (/\ i < j /\ j < k
          /\ IsDecorated(sinkLog[i].op)
          /\ sinkLog[i].id = sinkLog[k].id
          /\ sinkLog[j].tid # sinkLog[i].tid)
             => sinkLog[j].part = "raw"

\* a decorated call holds the guard and has made its prefix and body
\* invocations; between the two lies the invocation of another thread's raw
\* write
C18_Witness ==
    \E t \in Threads :
        /\ pc[t] = "suffix"
        /\ tHandle.tLock = 1
        /\ Len(sinkLog) = 3
        /\ sinkLog[1].id = cur[t].id /\ sinkLog[1].part = "prefix"
        /\ sinkLog[2].part = "raw" /\ sinkLog[2].tid # t
        /\ sinkLog[3].id = cur[t].id /\ sinkLog[3].part = "body"

\* the guard does its work: at most one thread is between acquire and
\* release and the guard is locked exactly when one is
GuardHolds ==
    /\ Cardinality({t \in Threads : InSection(t)}) <= 1
    /\ (tHandle.tLock = 1) <=> (\E t \in Threads : InSection(t))

\* LOG_InitHandle is called again on the handle, with the arguments of the
\* first call
ReInit == LOG_InitHandle("ptLog", "pfnSink", PagingErrorWarn[1], PagingErrorWarn[2],
                         PagingErrorWarn[3])

\* C19: LOG_InitHandle sets the guard to unlocked without acquiring it. It
\* can be called while a thread is inside a passing decorated call and holds
\* the guard; the guard is then free although that thread is still inside,
\* a waiting thread can take it, and the parts of the two messages can
\* interleave. Nothing but such a call of LOG_InitHandle ever breaks the
\* guard: exclusion holds as long as the handle is not initialised again
\* while threads log through it.
C19_ReinitBreaksTheGuard ==
    /\ [](\A t \in Threads : InSection(t) => ENABLED ReInit)
    /\ [](\A t \in Threads :
            (pc[t] = "acquire" /\ tHandle.tLock = 0) => ENABLED Acquire(t))
    /\ [][ReInit => (tHandle'.tLock = 0 /\ pc' = pc)]_vars
    /\ [][(GuardHolds /\ ~GuardHolds') => ReInit]_vars

\* LOG_InitHandle was called while a decorated call held the guard: two
\* threads are between acquire and release, and the prefix of the second
\* message lies between the prefix and the body of the first
C19_Witness ==
    \E a, b \in Threads :
        /\ a # b
        /\ pc[a] = "suffix"
        /\ pc[b] = "body"
        /\ Len(sinkLog) = 3
        /\ sinkLog[1].tid = a /\ sinkLog[1].part = "prefix"
        /\ sinkLog[2].tid = b /\ sinkLog[2].part = "prefix"
        /\ sinkLog[3].tid = a /\ sinkLog[3].part = "body"

\* the invocations a passing call with a null format has made when it is at
\* position at
PartsWithNullFormat(op, at) ==
    CASE at \in {"acquire", "prefix"} -> <<>>
      [] at \in {"body", "suffix"} -> IF op = "LOG_WRITE" THEN <<>> ELSE <<"prefix">>
      [] at = "release" -> IF op = "LOG_WRITE" THEN <<>> ELSE <<"prefix", "suffix">>

\* C20: a filtered or decorated call that passes the filter with a null
\* format string still acquires and releases the guard, but its body
\* LOG_Write fails without reaching the sink: a decorated call makes exactly
\* two sink invocations, the prefix and then the suffix, and a LOG_WRITE call
\* makes none.
C20_NullFormatSkipsBody ==
    /\ [](\A t \in Threads :
            (pc[t] # "idle" /\ cur[t].pszFmt = NULL) =>
               /\ CallParts(cur[t].id) = PartsWithNullFormat(cur[t].op, pc[t])
               /\ InSection(t) => tHandle.tLock = 1)
    /\ [][\A t \in Threads :
            (pc[t] # "idle" /\ cur[t].pszFmt = NULL /\ pc'[t] # pc[t]) =>
               /\ pc[t] = "body" => sinkLog' = sinkLog
               /\ pc'[t] = "idle" => (pc[t] = "release" /\ tHandle'.tLock = 0)]_vars
    /\ [][\A id \in 0..(MaxCalls - 1) :
            Completed(id) => Len(CallEntries(id)') = Len(CallEntries(id))]_vars

\* a decorated call with a null format has ended and left the prefix and the
\* suffix, and a LOG_WRITE call with a null format holds the guard, about to
\* release it, with no sink invocation made
C20_Witness ==
    /\ \E id \in 0..(nCalls - 1) :
         /\ Completed(id)
         /\ CallParts(id) = <<"prefix", "suffix">>
    /\ \E t \in Threads :
         /\ pc[t] = "release"
         /\ cur[t].op = "LOG_WRITE"
         /\ cur[t].pszFmt = NULL
         /\ CallEntries(cur[t].id) = <<>>
         /\ tHandle.tLock = 1

====
